---- MODULE Spec2Model ----
(***************************************************************************)
(* A model of gopls' rename engine (gopls/internal/lsp/source/rename.go):  *)
(* PrepareRename, Rename, renamePackage, renamePackageClause,              *)
(* renameImports, renameObj and renamer.update / docComment /              *)
(* updatePkgName, run against one immutable snapshot.                      *)
(*                                                                         *)
(* Identifiers and import paths are sequences of atoms (one atom is one    *)
(* character, except that the five characters "_test" form one atom), so   *)
(* that string concatenation, prefix and suffix tests are computed.        *)
(***************************************************************************)
EXTENDS Integers, Sequences, FiniteSets, TLC

VARIABLES
  snap,        \* the immutable snapshot the request is planned against
  req,         \* the request being served: [op, target, newName]
  pc,          \* position of the request's goroutine
  cancelled,   \* ctx.Done() is closed
  cancelledAt, \* where the request was when ctx was cancelled
  resp,        \* the response once pc = "done"
  rn,          \* frame of Rename (symbol path and implementation fan-out)
  pk,          \* frame of renamePackage / renameImports
  ro,          \* frame of renameObj and its renamer
  iter,        \* orders in which this request ranges over maps and sets
  reqNo,       \* number of requests issued against the snapshot
  first        \* response of the first request (for comparing repeats)

vars == <<snap, req, pc, cancelled, cancelledAt, resp, rn, pk, ro, iter, reqNo, first>>

----------------------------------------------------------------------------
(* Bounds of the model. *)

\* longest reference list references() hands to renameObj
MaxRefs == 3
\* requests issued against one snapshot in the repeat specification
MaxRequests == 2

----------------------------------------------------------------------------
(* Strings. *)

AtomLen(a) == IF a = "_test" THEN 5 ELSE 1

RECURSIVE StrLen(_)
StrLen(s) == IF s = <<>> THEN 0 ELSE AtomLen(Head(s)) + StrLen(Tail(s))

HasPrefix(s, p) == Len(p) <= Len(s) /\ SubSeq(s, 1, Len(p)) = p

HasSuffix(s, p) == Len(p) <= Len(s) /\ SubSeq(s, Len(s) - Len(p) + 1, Len(s)) = p

\* A trimming that drops the whole string when the prefix matches.
TrimPrefixAll(s, p) == IF HasPrefix(s, p) THEN <<>> ELSE s

TrimPrefix(s, p) == IF HasPrefix(s, p) THEN SubSeq(s, Len(p) + 1, Len(s)) ELSE s

Letters == {"a", "b", "k", "n", "o", "p", "q", "s", "z", "m", "i"}
Digits == {"0", "1", "2", "3", "4", "5", "6", "7", "8", "9"}

\* isValidIdentifier (util.go): a non-empty run of letters, digits and
\* underscores that starts with a letter or underscore and is not "_".
isValidIdentifier(id) ==
  /\ id # <<>>
  /\ id # <<"_">>
  /\ Head(id) \in Letters \cup {"_", "_test"}
  /\ \A i \in 1..Len(id) : id[i] \in Letters \cup Digits \cup {"_", "_test"}

\* path.Dir: everything before the last "/" ("." if there is none).
LastSlash(p) == IF \E i \in 1..Len(p) : p[i] = "/"
                THEN CHOOSE i \in 1..Len(p) : p[i] = "/" /\ \A j \in (i+1)..Len(p) : p[j] # "/"
                ELSE 0

PathDir(p) == IF LastSlash(p) = 0 THEN <<".">> ELSE SubSeq(p, 1, LastSlash(p) - 1)

\* path.Join of a directory and one element.
PathJoin(d, e) == IF d = <<".">> THEN e ELSE d \o <<"/">> \o e

\* fmt.Sprintf("%s%d", newName, try) for try < 10.
Sprintf_sd(name, try) == name \o <<ToString(try)>>

\* strconv.Quote(path) is two bytes longer than path.
QuoteLen(p) == StrLen(p) + 2

SeqRange(s) == {s[i] : i \in 1..Len(s)}

----------------------------------------------------------------------------
(* The snapshot: files, comments, objects.  Offsets are byte offsets. *)

\* token.File line tables: offset of the first byte of each line.
LineStarts(uri) ==
  CASE uri = "f.go" -> <<0, 10, 30, 40, 50, 70, 80, 100, 110, 120>>
    [] uri = "g.go" -> <<0, 10, 20, 30, 50, 70, 80, 90>>
    [] uri = "b.go" -> <<0, 10, 30, 50, 60>>
    [] OTHER -> <<0, 20, 40>>

\* tokFile.Line(pos): 1-based line holding offset off.
Line(uri, off) ==
  CHOOSE l \in 1..Len(LineStarts(uri)) :
    /\ LineStarts(uri)[l] <= off
    /\ \A m \in 1..Len(LineStarts(uri)) : LineStarts(uri)[m] <= off => m <= l

\* tokFile.LineStart(line)
LineStart(uri, l) == LineStarts(uri)[l]

\* A comment line is a sequence of tokens: maximal runs of word characters
\* (w = TRUE) separated by runs of other characters.
NW(n) == [w |-> FALSE, text |-> <<>>, len |-> n]
W(t) == [w |-> TRUE, text |-> t, len |-> StrLen(t)]

\* ast.CommentGroup values of the snapshot.  Group 1 documents "var p" in
\* f.go: a two-line block comment "/* p pq" / " p */" and a directive.
\* Group 2 is the free-standing comment above "p := 1".  Group 3 documents
\* the interface method p in g.go.
DocGroups ==
  [g \in {1, 2, 3} |->
    CASE g = 1 -> [uri |-> "f.go", pos |-> 30, end |-> 65, list |->
                    << [pos |-> 30, directive |-> FALSE, lines |->
                         << <<NW(3), W(<<"p">>), NW(1), W(<<"p", "q">>)>>,
                            <<NW(1), W(<<"p">>), NW(3)>> >>],
                       [pos |-> 50, directive |-> TRUE, lines |->
                         << <<NW(14), W(<<"p">>)>> >>] >>]
      [] g = 2 -> [uri |-> "f.go", pos |-> 100, end |-> 108, list |->
                    << [pos |-> 100, directive |-> FALSE, lines |->
                         << <<NW(3), W(<<"p">>), NW(1), W(<<"p", "1">>)>> >>] >>]
      [] g = 3 -> [uri |-> "g.go", pos |-> 11, end |-> 19, list |->
                    << [pos |-> 11, directive |-> FALSE, lines |->
                         << <<NW(3), W(<<"p">>), NW(1), W(<<"p">>)>> >>] >>] ]

\* ast.File.Comments, in source order.
FileComments(uri) ==
  CASE uri = "f.go" -> <<1, 2>>
    [] uri = "g.go" -> <<3>>
    [] OTHER -> <<>>

Node(kind, doc) == [kind |-> kind, doc |-> doc, tok |-> ""]
AssignNode(tok) == [kind |-> "AssignStmt", doc |-> 0, tok |-> tok]

\* One occurrence of an object: its span, whether it declares the object,
\* whether ReferenceInfo.ident is set, and the enclosing syntax nodes
\* (innermost first) as pathEnclosingInterval returns them.
Occ(uri, start, end, decl, path) ==
  [uri |-> uri, start |-> start, end |-> end, decl |-> decl, ident |-> TRUE, path |-> path]

NoSpec == [uri |-> "", pos |-> 0, pathPos |-> 0]

\* Name of the renamed package P in snapshot s, and the objects of s.
\* kind is the dynamic type of the types.Object; recv is the receiver of a
\* *types.Func ("none": a plain function, Recv() = nil); nvar is the number
\* of build variants of the object's package.
Object(name, kind, embedded, recv, nvar, occs) ==
  [name |-> name, kind |-> kind, embedded |-> embedded, recv |-> recv,
   nvar |-> nvar, occs |-> occs, imported |-> <<>>, spec |-> NoSpec]

PkgNameObject(name, imported, spec, occs) ==
  [name |-> name, kind |-> "pkgname", embedded |-> FALSE, recv |-> "none",
   nvar |-> 1, occs |-> occs, imported |-> imported, spec |-> spec]

ObjIds == {"V", "K", "W", "IM", "M1", "M2", "FN", "E", "U", "PB"}

Obj(s, id) ==
  CASE id = "V" -> Object(<<"p">>, "var", FALSE, "none", 2,
            << Occ("f.go", 74, 75, TRUE,
                   <<Node("Ident", 0), Node("ValueSpec", 0), Node("GenDecl", 1)>>),
               Occ("f.go", 88, 89, FALSE, <<>>) >>)
    [] id = "K" -> PkgNameObject(<<"k">>, <<"z">>, [uri |-> "f.go", pos |-> 17, pathPos |-> 19],
            << Occ("f.go", 17, 18, TRUE, <<Node("Ident", 0), Node("ImportSpec", 0)>>),
               Occ("f.go", 92, 93, FALSE, <<>>) >>)
    [] id = "W" -> Object(<<"p">>, "var", FALSE, "none", 1,
            << Occ("f.go", 110, 111, TRUE,
                   <<Node("Ident", 0), AssignNode("DEFINE"), Node("BlockStmt", 0)>>),
               Occ("f.go", 120, 121, FALSE, <<>>) >>)
    [] id = "IM" -> Object(<<"p">>, "func", FALSE, "iface", 1,
            << Occ("g.go", 22, 23, TRUE, <<Node("Ident", 0), Node("Field", 3)>>),
               Occ("g.go", 72, 73, FALSE, <<>>) >>)
    [] id = "M1" -> Object(<<"p">>, "func", FALSE, "concrete", 1,
            << Occ("g.go", 40, 41, TRUE, <<Node("Ident", 0), Node("FuncDecl", 0)>>) >>)
    [] id = "M2" -> Object(<<"p">>, "func", FALSE, "concrete", 1,
            << Occ("g.go", 60, 61, TRUE, <<Node("Ident", 0), Node("FuncDecl", 0)>>) >>)
    [] id = "FN" -> Object(<<"m">>, "func", FALSE, "none", 1,
            << Occ("g.go", 85, 86, TRUE, <<Node("Ident", 0), Node("FuncDecl", 0)>>) >>)
    [] id = "E" -> Object(<<"q">>, "var", TRUE, "none", 1,
            << Occ("g.go", 92, 93, TRUE, <<Node("Ident", 0), Node("Field", 0)>>) >>)
    [] id = "U" -> Object(<<"_">>, "var", FALSE, "none", 1,
            << Occ("g.go", 95, 96, TRUE, <<Node("Ident", 0), Node("ValueSpec", 0), Node("GenDecl", 0)>>) >>)
    \* the implicit PkgName of the un-aliased import "a/p" in b.go
    [] id = "PB" -> PkgNameObject(s.pkgName, s.pkgName, [uri |-> "b.go", pos |-> 17, pathPos |-> 17],
            << Occ("b.go", 17, 22, TRUE, <<Node("BasicLit", 0), Node("ImportSpec", 0)>>),
               Occ("b.go", 53, 53 + StrLen(s.pkgName), FALSE, <<>>),
               Occ("b.go", 63, 63 + StrLen(s.pkgName), FALSE, <<>>) >>)

\* implementations(): the concrete methods implementing an interface method.
implementations(id) == IF id = "IM" THEN <<"M1", "M2">> ELSE <<>>

----------------------------------------------------------------------------
(* Edits. *)

URIs == {"f.go", "g.go", "b.go", "b_test.go", "px_test.go", "p.go", "p_test.go",
         "p_bad.go", "s.go", "o.go", "q.go"}

\* map[span.URI][]Edit; a nil map reads as the empty map.
NoEdits == [u \in URIs |-> <<>>]

\* diff.Edit
Edit(start, end, new) == [start |-> start, end |-> end, new |-> new]

\* protocol.Position of an offset (0-based line, column), as the column
\* mapper of the file computes it.
Position(uri, off) == <<Line(uri, off) - 1, off - LineStart(uri, Line(uri, off))>>

\* protocol.TextEdit
TextEdit(s, e, new) == [s |-> s, e |-> e, new |-> new, ann |-> ""]

\* ToProtocolEdits: one TextEdit per diff.Edit, in the same order.
ToProtocolEdits(uri, edits) ==
  [i \in 1..Len(edits) |->
     TextEdit(Position(uri, edits[i].start), Position(uri, edits[i].end), edits[i].new)]

\* protocol.ComparePosition / protocol.CompareRange
ComparePosition(a, b) ==
  IF a[1] < b[1] THEN -1
  ELSE IF a[1] > b[1] THEN 1
  ELSE IF a[2] < b[2] THEN -1
  ELSE IF a[2] > b[2] THEN 1
  ELSE 0

CompareRange(a, b) ==
  IF ComparePosition(a.s, b.s) # 0 THEN ComparePosition(a.s, b.s)
  ELSE ComparePosition(a.e, b.e)

\* sort.Slice(v, CompareRange < 0)
RECURSIVE InsertSorted(_, _)
InsertSorted(v, x) ==
  IF v = <<>> THEN <<x>>
  ELSE IF CompareRange(x, Head(v)) < 0 THEN <<x>> \o v
  ELSE <<Head(v)>> \o InsertSorted(Tail(v), x)

RECURSIVE SortSlice(_)
SortSlice(v) == IF v = <<>> THEN <<>> ELSE InsertSorted(SortSlice(SubSeq(v, 1, Len(v) - 1)), v[Len(v)])

----------------------------------------------------------------------------
(* renamer.update, docComment and updatePkgName. *)

\* regexp `\bfrom\b`.FindAllIndex(line): the [lo, hi) byte ranges, relative
\* to the start of the line, of the word tokens equal to from.
RECURSIVE FindAllIndex(_, _, _)
FindAllIndex(line, from, off) ==
  IF line = <<>> THEN <<>>
  ELSE (IF Head(line).w /\ Head(line).text = from
        THEN << <<off, off + Head(line).len>> >>
        ELSE <<>>)
       \o FindAllIndex(Tail(line), from, off + Head(line).len)

\* The comment-scanning arm of docComment for a short variable declaration:
\* the first comment group that starts before the identifier and whose last
\* line is the line above the identifier (0 if none).
RECURSIVE CommentAbove(_, _, _)
CommentAbove(groups, occ, identLine) ==
  IF groups = <<>> THEN 0
  ELSE IF DocGroups[Head(groups)].pos > occ.start THEN CommentAbove(Tail(groups), occ, identLine)
  ELSE IF Line(occ.uri, DocGroups[Head(groups)].end) + 1 = identLine THEN Head(groups)
  ELSE CommentAbove(Tail(groups), occ, identLine)

\* docComment: the doc group of a declaring identifier (0 for nil), found
\* by walking the enclosing nodes outward.
RECURSIVE docComment(_, _)
docComment(occ, nodes) ==
  IF nodes = <<>> THEN 0
  ELSE LET decl == Head(nodes) IN
    CASE decl.kind \in {"FuncDecl", "Field", "GenDecl"} -> decl.doc
      [] decl.kind \in {"TypeSpec", "ValueSpec"} ->
           IF decl.doc # 0 THEN decl.doc ELSE docComment(occ, Tail(nodes))
      [] decl.kind = "Ident" -> docComment(occ, Tail(nodes))
      [] decl.kind = "AssignStmt" ->
           IF decl.tok # "DEFINE" THEN 0
           ELSE LET c == CommentAbove(FileComments(occ.uri), occ, Line(occ.uri, occ.start)) IN
                IF c # 0 THEN c ELSE docComment(occ, Tail(nodes))
      [] OTHER -> 0

\* updatePkgName: the edit of the part of the import spec before the path.
\* err is set when the enclosing path is not [x, ImportSpec, ...].
updatePkgName(obj, declOcc, to) ==
  IF Len(declOcc.path) < 2 THEN [err |-> "no path enclosing interval", edit |-> Edit(0, 0, <<>>)]
  ELSE IF declOcc.path[2].kind # "ImportSpec" THEN [err |-> "failed to update PkgName", edit |-> Edit(0, 0, <<>>)]
  ELSE [err |-> "",
        edit |-> Edit(obj.spec.pos, obj.spec.pathPos,
                      IF obj.imported # to THEN to \o <<" ">> ELSE <<>>)]

\* The edits of one comment line: one per match, at lineStart + match.
LineEdits(line, lineStart, from, to) ==
  LET locs == FindAllIndex(line, from, 0) IN
  [k \in 1..Len(locs) |-> Edit(lineStart + locs[k][1], lineStart + locs[k][2], to)]

RECURSIVE CommentEdits(_, _, _, _, _)
CommentEdits(uri, comment, i, from, to) ==
  IF i >= Len(comment.lines) THEN <<>>
  ELSE LET commentLine == Line(uri, comment.pos)
           lineStart == IF i > 0 THEN LineStart(uri, commentLine + i) ELSE comment.pos
       IN LineEdits(comment.lines[i + 1], lineStart, from, to)
          \o CommentEdits(uri, comment, i + 1, from, to)

\* The doc-comment edits of a declaration: every comment of the group that
\* is not a directive, line by line.
RECURSIVE DocEdits(_, _, _, _)
DocEdits(uri, list, from, to) ==
  IF list = <<>> THEN <<>>
  ELSE (IF Head(list).directive THEN <<>> ELSE CommentEdits(uri, Head(list), 0, from, to))
       \o DocEdits(uri, Tail(list), from, to)

\* ref.Span()
RefSpan(occ) == <<occ.uri, occ.start, occ.end>>

\* An update that does not record the spans it has seen.
SpanSeenNever(seen, occ) == FALSE

\* seen[refSpan]
SpanSeen(seen, occ) == RefSpan(occ) \in seen

\* One iteration of the loop of update over r.refs: st is [result, seen,
\* err]; ref is [occ, variant] of object obj.
updateRef(st, obj, ref, from, to) ==
  LET occ == obj.occs[ref.occ] IN
  IF SpanSeen(st.seen, occ) THEN st
  ELSE LET seen2 == st.seen \cup {RefSpan(occ)} IN
    IF obj.kind = "pkgname" /\ occ.decl
    THEN LET u == updatePkgName(obj, occ, to) IN
         IF u.err # "" THEN [st EXCEPT !.err = u.err, !.seen = seen2]
         ELSE [st EXCEPT !.seen = seen2,
                         !.result[occ.uri] = Append(@, u.edit)]
    ELSE LET withId == [st.result EXCEPT ![occ.uri] = Append(@, Edit(occ.start, occ.end, to))]
             doc == IF ~occ.decl \/ ~occ.ident THEN 0 ELSE docComment(occ, occ.path)
         IN IF doc = 0 THEN [st EXCEPT !.seen = seen2, !.result = withId]
            ELSE [st EXCEPT !.seen = seen2,
                            !.result = [withId EXCEPT ![DocGroups[doc].uri] =
                                          @ \o DocEdits(DocGroups[doc].uri, DocGroups[doc].list, from, to)]]

----------------------------------------------------------------------------
(* The snapshot: packages, files, imports, scopes. *)

NoModule == [has |-> FALSE, path |-> <<>>]
Module(p) == [has |-> TRUE, path |-> p]

PathP == <<"a", "/", "p">>

\* Metadata of the workspace packages.  "p" is the package renamed through
\* its package clause, "pt" its test variant, "xt" its external test
\* package, "s" a nested package, "o" a nested package of another module
\* (imported by b_test.go),
\* "q" a sibling without module information whose path has the path of p as
\* a string prefix, "b" an importer of p and s, "bt" the test variant of b
\* and "bi" an intermediate test variant of b, parsed for export data only.
Meta(id, path, name, module, mode, files, rdeps) ==
  [id |-> id, path |-> path, name |-> name, module |-> module, mode |-> mode,
   files |-> files, rdeps |-> rdeps]

Metadata(s, id) ==
  CASE id = "p" -> Meta(id, PathP, s.pkgName, s.module, "ParseFull",
                        <<"p.go", "p_bad.go">>, <<"b", "bi", "bt">>)
    [] id = "pt" -> Meta(id, PathP, s.pkgName, s.module, "ParseFull",
                         <<"p.go", "p_test.go">>, <<"xt">>)
    [] id = "xt" -> Meta(id, PathP \o <<"_test">>, s.pkgName \o <<"_test">>, s.module, "ParseFull",
                         <<"px_test.go">>, <<>>)
    [] id = "s" -> Meta(id, PathP \o <<"/", "s">>, <<"s">>, s.sModule, "ParseFull",
                        <<"s.go">>, <<"b", "bi", "bt">>)
    [] id = "o" -> Meta(id, PathP \o <<"/", "o">>, <<"o">>, Module(PathP \o <<"/", "o">>), "ParseFull",
                        <<"o.go">>, <<"bt">>)
    [] id = "q" -> Meta(id, PathP \o <<"q">>, <<"q">>, NoModule, "ParseFull",
                        <<"q.go">>, <<>>)
    [] id = "b" -> Meta(id, <<"a", "/", "b">>, <<"b">>, Module(<<"a">>), "ParseFull",
                        <<"b.go">>, <<>>)
    [] id = "bt" -> Meta(id, <<"a", "/", "b">>, <<"b">>, Module(<<"a">>), "ParseFull",
                         <<"b.go", "b_test.go">>, <<>>)
    [] id = "bi" -> Meta(id, <<"a", "/", "b">>, <<"b">>, Module(<<"a">>), "ParseExported",
                         <<"b.go">>, <<>>)

\* snapshot.MetadataForFile(uri): the packages holding the file, narrowest
\* first.
MetadataForFile(uri) ==
  CASE uri = "p.go" -> <<"p", "pt">>
    [] uri = "px_test.go" -> <<"xt">>
    [] OTHER -> <<>>

\* ast.File.Name of a file (has = FALSE: the file has no package clause).
FileName(s, uri) ==
  CASE uri \in {"p.go", "p_test.go"} -> [has |-> TRUE, pos |-> 8, end |-> 8 + StrLen(s.pkgName)]
    [] uri = "px_test.go" -> [has |-> TRUE, pos |-> 8, end |-> 8 + StrLen(s.pkgName \o <<"_test">>)]
    [] uri = "p_bad.go" -> [has |-> FALSE, pos |-> 0, end |-> 0]
    [] OTHER -> [has |-> TRUE, pos |-> 8, end |-> 9]

\* ast.File.Imports: import path, whether the spec has a Name, the spec's
\* Path.Pos() and Path.End(), and the implicit PkgName of the spec.
ImportSpec(path, named, pathPos, obj) ==
  [path |-> path, named |-> named, pathPos |-> pathPos, pathEnd |-> pathPos + QuoteLen(path), obj |-> obj]

Imports(s, uri) ==
  CASE uri = "b.go" -> << ImportSpec(PathP, s.bAlias, 17, "PB"),
                          ImportSpec(PathP \o <<"/", "s">>, FALSE, 37, "") >>
    [] uri = "px_test.go" -> << ImportSpec(PathP, TRUE, 29, "") >>
    [] uri = "b_test.go" -> << ImportSpec(PathP \o <<"/", "o">>, FALSE, 29, "") >>
    [] OTHER -> <<>>

\* dep.GetTypesInfo().Scopes[f.File]: the names bound in the file scope.
fileScope(s, uri) ==
  CASE uri = "b.go" -> {IF s.bAlias THEN <<"k">> ELSE s.pkgName, <<"s">>} \cup s.bFileNames
    [] uri = "px_test.go" -> {<<"k">>}
    [] uri = "b_test.go" -> {<<"o">>}
    [] OTHER -> {}

\* dep.GetTypes().Scope(): the names bound in the package scope.  The test
\* variant of b also holds the declarations of b_test.go.
pkgScope(s, dep) ==
  CASE dep = "b" -> s.bDecls
    [] dep = "bt" -> s.bDecls \cup s.btDecls
    [] OTHER -> {}

ParseMode(s, dep) == Metadata(s, dep).mode

CompiledGoFiles(s, dep) == Metadata(s, dep).files

\* The snapshots the requests are planned against: the base workspace, and
\* workspaces that differ from it in one respect.
BaseSnap ==
  [clash |-> {}, pkgName |-> <<"p">>, module |-> Module(<<"a">>), bAlias |-> FALSE,
   bFileNames |-> {}, bDecls |-> {}, btDecls |-> {}, fileRename |-> TRUE,
   sModule |-> Module(<<"a">>)]

Snapshots ==
  {BaseSnap}
  \cup {[BaseSnap EXCEPT !.clash = c] : c \in {{<<"V", 1>>}, {<<"V", 2>>}, {<<"M2", 1>>}, {<<"PB", 1>>}}}
  \cup {[BaseSnap EXCEPT !.pkgName = <<"m", "a", "i", "n">>]}
  \cup {[BaseSnap EXCEPT !.module = m] : m \in {NoModule, Module(PathP)}}
  \cup {[BaseSnap EXCEPT !.bAlias = TRUE]}
  \cup {[BaseSnap EXCEPT !.fileRename = FALSE]}
  \cup {[BaseSnap EXCEPT !.sModule = NoModule]}
  \cup {[BaseSnap EXCEPT !.bFileNames = {<<"n">>}]}
  \cup {[BaseSnap EXCEPT !.bDecls = {<<"n">>}, !.bFileNames = {<<"n", "1">>}]}
  \cup {[BaseSnap EXCEPT !.btDecls = d] : d \in {{<<"n">>}, {<<"n">>, <<"n", "1">>}}}

----------------------------------------------------------------------------
(* Requests, responses and frames. *)

NewNames == {<<"n">>, <<"p">>, <<"z">>, <<"1">>, <<"n", "_test">>, <<"_">>}

\* What the position of a request resolves to: an object, the package
\* clause of a file, or nothing.
ClauseTargets == {"p.go", "px_test.go", "x.go"}
Targets == (ObjIds \ {"PB"}) \cup ClauseTargets \cup {"nothing"}

\* The requests issued against snapshot s.  The workspaces that differ from
\* the base workspace in the packages of the renamed directory only are
\* exercised by package-clause requests.
TargetsOf(s) ==
  IF [s EXCEPT !.clash = {}] = BaseSnap /\ s.clash # {<<"PB", 1>>} THEN Targets ELSE ClauseTargets

NewNamesFor(target) ==
  IF target \in ClauseTargets THEN NewNames \ {<<"z">>, <<"_">>}
  ELSE IF target = "K" THEN {<<"n">>, <<"z">>, <<"k">>}
  ELSE IF target \in {"E", "U"} THEN {<<"n">>, <<"q">>, <<"_">>}
  ELSE {<<"n">>, <<"p">>, <<"1">>}

NoItem == [s |-> <<0, 0>>, e |-> <<0, 0>>, text |-> <<>>]

NoResp ==
  [status |-> "", err |-> "", edits |-> NoEdits, isPkg |-> FALSE,
   hasOpt |-> FALSE, optEdits |-> NoEdits, annotations |-> {}, item |-> NoItem]

ErrResp(err, isPkg) == [NoResp EXCEPT !.status = "error", !.err = err, !.isPkg = isPkg]

OkResp(edits, isPkg) == [NoResp EXCEPT !.status = "ok", !.edits = edits, !.isPkg = isPkg]

\* A nil-pointer dereference or a slice-bounds failure ends the request's
\* goroutine with no response.
PanicResp(isPkg) == [NoResp EXCEPT !.status = "panic", !.err = "runtime error", !.isPkg = isPkg]

NoReq == [op |-> "", target |-> "", newName |-> <<>>]

Rn0 == [result |-> NoEdits, implIdx |-> 0, annotated |-> NoEdits, annotations |-> {}]

\* Where the last local name was chosen: the dependency, the file and the
\* import spec, and whether the changes of its renameObj were appended.
NoProbe == [dep |-> "", f |-> "", pathPos |-> 0, pathEnd |-> 0, merged |-> FALSE]

Pk0 ==
  [modulePath |-> <<>>, oldPath |-> <<>>, newName |-> <<>>, newPathPrefix |-> <<>>,
   edits |-> NoEdits, seen |-> {}, mi |-> 0, newPath |-> <<>>, pkgName |-> <<>>,
   rdeps |-> <<>>, di |-> 0, fi |-> 0, ii |-> 0, localName |-> <<>>, probe |-> NoProbe]

Upd0 == [result |-> NoEdits, seen |-> {}, err |-> ""]

Ro0 ==
  [caller |-> "", objId |-> "", to |-> <<>>, renameImpls |-> FALSE, refs |-> <<>>,
   ci |-> 0, hadConflicts |-> FALSE, changeMethods |-> FALSE, ui |-> 0, upd |-> Upd0,
   err |-> "", edits |-> NoEdits]

Iter0 == [meta |-> <<>>, rdepsRev |-> FALSE]

\* Orders in which s.AllValidMetadata may list the packages.
MetaOrders ==
  { <<"q", "o", "xt", "p", "pt", "s", "b", "bt", "bi">>,
    <<"bi", "bt", "b", "s", "pt", "p", "xt", "o", "q">> }

Reverse(q) == [i \in 1..Len(q) |-> q[Len(q) + 1 - i]]

\* A call of a collaborator that takes ctx: it fails with the context's
\* error once ctx is cancelled, and may fail for its own reasons before.
CollabOutcomes == IF cancelled THEN {"context canceled"} ELSE {"", "collaborator failure"}

----------------------------------------------------------------------------
(* checkRenamable, isInterfaceSignature, the conflict checker, references. *)

checkRenamable(obj) ==
  IF obj.kind = "var" /\ obj.embedded THEN "can't rename embedded fields"
  ELSE IF obj.name = <<"_">> THEN "can't rename _"
  ELSE ""

\* isInterfaceSignature: "panic" stands for the nil dereference of
\* Recv().Type() on a function without receiver.
isInterfaceSignature(obj) ==
  IF obj.kind = "func"
  THEN (IF obj.recv = "none" THEN "panic" ELSE IF obj.recv = "iface" THEN "true" ELSE "false")
  ELSE "false"

\* r.check(ref.obj) sets r.hadConflicts: the snapshot names the objects (per
\* build variant) whose renaming conflicts.
check(s, objId, ref) == <<objId, ref.variant>> \in s.clash

\* Sequences of length lo..hi over set S.
SeqsOver(S, lo, hi) == UNION {[1..n -> S] : n \in lo..hi}

\* references(qos, includeDeclaration = true): every occurrence of the
\* object at least once, once more for each further build variant that
\* reaches it, in no particular order.
References(obj) ==
  { refs \in SeqsOver([occ : 1..Len(obj.occs), variant : 1..obj.nvar], Len(obj.occs), MaxRefs) :
      \A o \in 1..Len(obj.occs) : \E i \in 1..Len(refs) : refs[i].occ = o }

\* The interface test of renameObj over the references.
RefsTouchInterface(obj) == obj.kind = "func" /\ obj.recv = "iface"

----------------------------------------------------------------------------
(* renameObj. *)

ReturnPc(caller) ==
  CASE caller = "Rename" -> "rnAfter"
    [] caller = "impl" -> "implAfter"
    [] caller = "imports" -> "impAfter"

\* The frame of a call renameObj(ctx, s, newName, qos, renameImpls).
CallRenameObj(caller, objId, newName, renameImpls) ==
  [Ro0 EXCEPT !.caller = caller, !.objId = objId, !.to = newName, !.renameImpls = renameImpls]

\* return nil, err
RoFail(err) ==
  /\ ro' = [ro EXCEPT !.err = err, !.edits = NoEdits]
  /\ pc' = ReturnPc(ro.caller)

\* The checks of renameObj without the comparison of the names.
renameObjChecksNoSame(obj, newName) ==
  IF checkRenamable(obj) # "" THEN checkRenamable(obj)
  ELSE IF ~isValidIdentifier(newName) THEN "invalid identifier to rename"
  ELSE ""

\* The checks of renameObj on the object and the new name ("" if they pass).
renameObjChecks(obj, newName) ==
  IF checkRenamable(obj) # "" THEN checkRenamable(obj)
  ELSE IF obj.name = newName THEN "old and new names are the same"
  ELSE IF ~isValidIdentifier(newName) THEN "invalid identifier to rename"
  ELSE ""

\* The checks on the object and the new name, then references() and the
\* construction of the renamer.
renameObjStart ==
  /\ pc = "renameObj"
  /\ LET obj == Obj(snap, ro.objId) IN
     IF renameObjChecks(obj, ro.to) # "" THEN RoFail(renameObjChecks(obj, ro.to))
     ELSE \E out \in CollabOutcomes :
            IF out # "" THEN RoFail(out)
            ELSE \E refs \in References(obj) :
                   /\ ro' = [ro EXCEPT !.refs = refs, !.ci = 1,
                                       !.changeMethods = ro.renameImpls \/ RefsTouchInterface(obj)]
                   /\ pc' = "check"
  /\ UNCHANGED <<snap, req, cancelled, cancelledAt, resp, rn, pk, iter, reqNo, first>>

\* A loop over refs that does not stop at a conflict.
checkStepNoBreak(ci, n, conflict) == IF ci < n THEN "next" ELSE "update"

\* What one iteration of the loop over refs that calls r.check leads to:
\* the loop stops at the first conflict and renameObj returns r.errors;
\* after the last reference without conflict, r.update runs.
checkStep(ci, n, conflict) ==
  IF conflict THEN "abort" ELSE IF ci < n THEN "next" ELSE "update"

renameObjCheck ==
  /\ pc = "check"
  /\ LET conflict == check(snap, ro.objId, ro.refs[ro.ci])
         step == checkStep(ro.ci, Len(ro.refs), conflict)
     IN CASE step = "abort" ->
               /\ ro' = [ro EXCEPT !.hadConflicts = TRUE, !.err = "conflict", !.edits = NoEdits]
               /\ pc' = ReturnPc(ro.caller)
          [] step = "next" ->
               /\ ro' = [ro EXCEPT !.hadConflicts = conflict, !.ci = @ + 1]
               /\ pc' = "check"
          [] step = "update" ->
               /\ ro' = [ro EXCEPT !.hadConflicts = conflict, !.ui = 1, !.upd = Upd0]
               /\ pc' = "update"
  /\ UNCHANGED <<snap, req, cancelled, cancelledAt, resp, rn, pk, iter, reqNo, first>>

\* One iteration of the loop of r.update over r.refs.
renameObjUpdate ==
  /\ pc = "update"
  /\ LET obj == Obj(snap, ro.objId)
         st == updateRef(ro.upd, obj, ro.refs[ro.ui], obj.name, ro.to)
     IN IF st.err # "" THEN RoFail(st.err)
        ELSE /\ ro' = [ro EXCEPT !.upd = st, !.ui = @ + 1]
             /\ pc' = IF ro.ui < Len(ro.refs) THEN "update" ELSE "result"
  /\ UNCHANGED <<snap, req, cancelled, cancelledAt, resp, rn, pk, iter, reqNo, first>>

\* The conversion of the changes of every file to protocol edits, after
\* reading the file.
ProtocolResult(changes) == [u \in URIs |-> ToProtocolEdits(u, changes[u])]

renameObjResult ==
  /\ pc = "result"
  /\ \E out \in CollabOutcomes :
       IF out # "" THEN RoFail(out)
       ELSE /\ ro' = [ro EXCEPT !.err = "", !.edits = ProtocolResult(ro.upd.result)]
            /\ pc' = ReturnPc(ro.caller)
  /\ UNCHANGED <<snap, req, cancelled, cancelledAt, resp, rn, pk, iter, reqNo, first>>

----------------------------------------------------------------------------
(* PrepareRename. *)

isInPackageName(target) == target \in ClauseTargets

\* The checks of PrepareRename on a package-clause request ("" if it
\* passes them).
prepareRenamePackage(s, uri) ==
  IF ~s.fileRename THEN "can't rename package: LSP client does not support file renaming"
  ELSE IF Len(MetadataForFile(uri)) = 0 THEN "no packages found for file"
  ELSE LET meta == Metadata(s, MetadataForFile(uri)[1]) IN
    IF meta.name = <<"m", "a", "i", "n">> THEN "can't rename package main"
    ELSE IF HasSuffix(meta.name, <<"_test">>) THEN "can't rename x_test packages"
    ELSE IF ~meta.module.has THEN "can't rename package: missing module information"
    ELSE IF meta.module.path = meta.path THEN "can't rename package: package path is the same as module path"
    ELSE ""

\* computePrepareRenameResp
computePrepareRenameResp(uri, start, end, text) ==
  [s |-> Position(uri, start), e |-> Position(uri, end), text |-> text]

PrepareRename(target) ==
  /\ pc = "idle"
  /\ reqNo = 0
  /\ req' = [op |-> "PrepareRename", target |-> target, newName |-> <<>>]
  /\ reqNo' = 1
  /\ pc' = "done"
  /\ \E out \in CollabOutcomes :
       resp' =
         IF out # "" THEN ErrResp(out, FALSE)
         ELSE IF isInPackageName(target)
         THEN (IF prepareRenamePackage(snap, target) # ""
               THEN ErrResp(prepareRenamePackage(snap, target), TRUE)
               ELSE LET meta == Metadata(snap, MetadataForFile(target)[1])
                        name == FileName(snap, target)
                    IN [OkResp(NoEdits, TRUE) EXCEPT
                          !.item = computePrepareRenameResp(target, name.pos, name.end, meta.name)])
         ELSE IF target = "nothing" THEN ErrResp("no object found", FALSE)
         ELSE LET obj == Obj(snap, target) IN
              IF checkRenamable(obj) # "" THEN ErrResp(checkRenamable(obj), FALSE)
              ELSE [OkResp(NoEdits, FALSE) EXCEPT
                      !.item = computePrepareRenameResp(obj.occs[1].uri, obj.occs[1].start,
                                                        obj.occs[1].end, obj.name)]
  /\ UNCHANGED <<snap, cancelled, cancelledAt, rn, pk, ro, iter, first>>

----------------------------------------------------------------------------
(* Rename: dispatch, and the single-symbol path with the fan-out over the
   implementations of an interface method. *)

Finish(r) ==
  /\ resp' = r
  /\ pc' = "done"

\* The frame of renamePackage(ctx, s, modulePath, oldPath, newName, metadata).
CallRenamePackage(modulePath, oldPath, newName) ==
  [Pk0 EXCEPT !.modulePath = modulePath, !.oldPath = oldPath, !.newName = newName,
              !.newPathPrefix = PathJoin(PathDir(oldPath), newName), !.mi = 1]

\* Rename on a package clause, up to the call of renamePackage.
RenamePackageClauseStart(target, newName) ==
  IF ~isValidIdentifier(newName)
  THEN Finish(ErrResp("not a valid identifier", TRUE)) /\ UNCHANGED <<pk, iter>>
  ELSE IF Len(MetadataForFile(target)) = 0
  THEN Finish(ErrResp("no packages found for file", TRUE)) /\ UNCHANGED <<pk, iter>>
  ELSE LET meta == Metadata(snap, MetadataForFile(target)[1]) IN
    IF ~meta.module.has
    THEN Finish(ErrResp("cannot rename package: missing module information", TRUE))
         /\ UNCHANGED <<pk, iter>>
    ELSE IF HasSuffix(newName, <<"_test">>)
    THEN Finish(ErrResp("cannot rename to _test package", TRUE)) /\ UNCHANGED <<pk, iter>>
    ELSE \E out \in CollabOutcomes :
      IF out # "" THEN Finish(ErrResp(out, TRUE)) /\ UNCHANGED <<pk, iter>>
      ELSE IF meta.module.path = meta.path
      THEN Finish(ErrResp("cannot rename package: module path is the same as the package path", TRUE))
           /\ UNCHANGED <<pk, iter>>
      ELSE \E order \in MetaOrders, rev \in BOOLEAN :
             /\ iter' = [meta |-> order, rdepsRev |-> rev]
             /\ pk' = CallRenamePackage(meta.module.path, meta.path, newName)
             /\ pc' = "pkgLoop"
             /\ UNCHANGED resp

\* Rename up to the call of renamePackage (package clause) or of renameObj.
RenameDispatch(target, newName) ==
  \E out \in CollabOutcomes :
    IF out # "" THEN Finish(ErrResp(out, FALSE)) /\ UNCHANGED <<pk, ro, iter>>
    ELSE IF isInPackageName(target)
    THEN RenamePackageClauseStart(target, newName) /\ UNCHANGED ro
    ELSE IF target = "nothing"
    THEN Finish(ErrResp("no object found", FALSE)) /\ UNCHANGED <<pk, ro, iter>>
    ELSE /\ ro' = CallRenameObj("Rename", target, newName, FALSE)
         /\ pc' = "renameObj"
         /\ UNCHANGED <<resp, pk, iter>>

RenameStart(target, newName) ==
  /\ pc = "idle"
  /\ reqNo = 0
  /\ req' = [op |-> "Rename", target |-> target, newName |-> newName]
  /\ reqNo' = 1
  /\ RenameDispatch(target, newName)
  /\ UNCHANGED <<snap, cancelled, cancelledAt, rn, first>>

\* Edits of an implementation appended without their annotation.
AnnotateUntagged(annotated, subResult, implID) ==
  [u \in URIs |-> annotated[u] \o subResult[u]]

\* te.AnnotationID = fmt.Sprint(implID) on every edit of subResult,
\* appended to annotatedEdits.
Annotate(annotated, subResult, implID) ==
  [u \in URIs |-> annotated[u] \o
     [i \in 1..Len(subResult[u]) |-> [subResult[u][i] EXCEPT !.ann = ToString(implID)]]]

ChangeAnnotation(implID, objId) ==
  [id |-> ToString(implID), label |-> implID + 1, needsConfirmation |-> TRUE, description |-> objId]

StartImpl(impls, idx, newName) ==
  /\ ro' = CallRenameObj("impl", impls[idx], newName, TRUE)
  /\ pc' = "renameObj"

\* Rename after the direct renameObj: the result is returned as it is,
\* unless the object is an interface method.
RenameAfterObj ==
  /\ pc = "rnAfter"
  /\ IF ro.err # "" THEN Finish(ErrResp(ro.err, FALSE)) /\ UNCHANGED <<rn, ro>>
     ELSE LET isIface == isInterfaceSignature(Obj(snap, req.target)) IN
       CASE isIface = "panic" -> Finish(PanicResp(FALSE)) /\ UNCHANGED <<rn, ro>>
         [] isIface = "false" -> Finish(OkResp(ro.edits, FALSE)) /\ UNCHANGED <<rn, ro>>
         [] isIface = "true" ->
              \E out \in CollabOutcomes :
                IF out # "" THEN Finish(ErrResp(out, FALSE)) /\ UNCHANGED <<rn, ro>>
                ELSE IF implementations(req.target) = <<>>
                THEN /\ Finish([OkResp(ro.edits, FALSE) EXCEPT !.hasOpt = TRUE])
                     /\ UNCHANGED <<rn, ro>>
                ELSE /\ rn' = [Rn0 EXCEPT !.result = ro.edits, !.implIdx = 1]
                     /\ StartImpl(implementations(req.target), 1, req.newName)
                     /\ UNCHANGED resp
  /\ UNCHANGED <<snap, req, cancelled, cancelledAt, pk, iter, reqNo, first>>

\* One iteration of the loop over the implementations, after its renameObj.
RenameAfterImpl ==
  /\ pc = "implAfter"
  /\ LET impls == implementations(req.target)
         implID == rn.implIdx - 1
     IN IF ro.err # "" THEN Finish(ErrResp(ro.err, FALSE)) /\ UNCHANGED <<rn, ro>>
        ELSE LET annotated == Annotate(rn.annotated, ro.edits, implID)
                 annotations == rn.annotations \cup {ChangeAnnotation(implID, impls[rn.implIdx])}
             IN IF rn.implIdx < Len(impls)
                THEN /\ rn' = [rn EXCEPT !.annotated = annotated, !.annotations = annotations,
                                         !.implIdx = @ + 1]
                     /\ StartImpl(impls, rn.implIdx + 1, req.newName)
                     /\ UNCHANGED resp
                ELSE /\ rn' = [rn EXCEPT !.annotated = annotated, !.annotations = annotations]
                     /\ Finish([OkResp(rn.result, FALSE) EXCEPT
                                  !.hasOpt = TRUE, !.optEdits = annotated, !.annotations = annotations])
                     /\ UNCHANGED ro
  /\ UNCHANGED <<snap, req, cancelled, cancelledAt, pk, iter, reqNo, first>>

----------------------------------------------------------------------------
(* renamePackage, renamePackageClause, renameImports. *)

\* A set of seen (file, import path) pairs that never reports a pair.
seenAddNever(seen, uri, importPath) == FALSE

\* seenPackageRename.add: reports whether the key was seen.
seenAdd(seen, uri, importPath) == <<uri, importPath>> \in seen

\* renamePackageClause over pkg.CompiledGoFiles(): st is [seen, edits].
RECURSIVE renamePackageClause(_, _, _, _, _)
renamePackageClause(s, m, files, newName, st) ==
  IF files = <<>> THEN st
  ELSE LET f == Head(files)
           name == FileName(s, f)
           marked == [st EXCEPT !.seen = @ \cup {<<f, m.path>>}]
       IN IF seenAdd(st.seen, f, m.path)
          THEN renamePackageClause(s, m, Tail(files), newName, st)
          ELSE IF ~name.has
          THEN renamePackageClause(s, m, Tail(files), newName, marked)
          ELSE renamePackageClause(s, m, Tail(files), newName,
                 [marked EXCEPT !.edits[f] =
                    Append(@, TextEdit(Position(f, name.pos), Position(f, name.end), newName))])

\* A scope test on the bare string prefix, without the "/" delimiter.
inScopeBarePrefix(path, oldPath) == HasPrefix(path, oldPath)

\* Whether a package path is oldPath or below it.
inScope(path, oldPath) == HasPrefix(path \o <<"/">>, oldPath \o <<"/">>)

\* s.GetReverseDependencies(m): the importers, in the order of this request.
ReverseDependencies(s, m) == IF iter.rdepsRev THEN Reverse(m.rdeps) ELSE m.rdeps

\* renamePackage returns.
PkgReturn(r) ==
  /\ resp' = r
  /\ pc' = "done"

\* One iteration of the loop of renamePackage over allMetadata, up to the
\* loop of renameImports over the reverse dependencies.
renamePackageStep ==
  /\ pc = "pkgLoop"
  /\ IF pk.mi > Len(iter.meta)
     THEN PkgReturn(OkResp(pk.edits, TRUE)) /\ UNCHANGED pk
     ELSE LET m == Metadata(snap, iter.meta[pk.mi])
              st0 == [seen |-> pk.seen, edits |-> pk.edits]
          IN IF m.path = pk.oldPath \o <<"_test">>
             THEN \E out \in CollabOutcomes :
                    IF out # "" THEN PkgReturn(ErrResp(out, TRUE)) /\ UNCHANGED pk
                    ELSE LET st == renamePackageClause(snap, m, m.files, pk.newName \o <<"_test">>, st0)
                         IN /\ pk' = [pk EXCEPT !.seen = st.seen, !.edits = st.edits, !.mi = @ + 1]
                            /\ UNCHANGED <<pc, resp>>
             ELSE IF ~inScope(m.path, pk.oldPath)
             THEN pk' = [pk EXCEPT !.mi = @ + 1] /\ UNCHANGED <<pc, resp>>
             ELSE IF ~m.module.has
             THEN PkgReturn(ErrResp("cannot rename package: missing module information", TRUE))
                  /\ UNCHANGED pk
             ELSE IF pk.modulePath # m.module.path
             THEN pk' = [pk EXCEPT !.mi = @ + 1] /\ UNCHANGED <<pc, resp>>
             ELSE LET newPath == pk.newPathPrefix \o TrimPrefix(m.path, pk.oldPath)
                      isTarget == m.path = pk.oldPath
                      pkgName == IF isTarget THEN pk.newName ELSE m.name
                  IN \E out1 \in (IF isTarget THEN CollabOutcomes ELSE {""}), out2 \in CollabOutcomes :
                       IF out1 # "" THEN PkgReturn(ErrResp(out1, TRUE)) /\ UNCHANGED pk
                       ELSE IF out2 # "" THEN PkgReturn(ErrResp(out2, TRUE)) /\ UNCHANGED pk
                       ELSE LET st == IF isTarget
                                      THEN renamePackageClause(snap, m, m.files, pk.newName, st0)
                                      ELSE st0
                            IN /\ pk' = [pk EXCEPT !.seen = st.seen, !.edits = st.edits,
                                                   !.newPath = newPath, !.pkgName = pkgName,
                                                   !.rdeps = ReverseDependencies(snap, m),
                                                   !.di = 1]
                               /\ pc' = "deps"
                               /\ UNCHANGED resp
  /\ UNCHANGED <<snap, req, cancelled, cancelledAt, rn, ro, iter, reqNo, first>>

\* One iteration of the loop of renameImports over rdeps: a dependency
\* that is not fully parsed is skipped.
renameImportsDep ==
  /\ pc = "deps"
  /\ IF pk.di > Len(pk.rdeps)
     THEN /\ pk' = [pk EXCEPT !.mi = @ + 1]
          /\ pc' = "pkgLoop"
     ELSE IF ParseMode(snap, pk.rdeps[pk.di]) # "ParseFull"
     THEN /\ pk' = [pk EXCEPT !.di = @ + 1]
          /\ pc' = "deps"
     ELSE /\ pk' = [pk EXCEPT !.fi = 1]
          /\ pc' = "files"
  /\ UNCHANGED <<snap, req, cancelled, cancelledAt, resp, rn, ro, iter, reqNo, first>>

\* One iteration of the loop over dep.CompiledGoFiles(): a file already
\* seen for this import path is skipped.
renameImportsFile ==
  /\ pc = "files"
  /\ LET dep == pk.rdeps[pk.di]
         files == CompiledGoFiles(snap, dep)
         m == Metadata(snap, iter.meta[pk.mi])
     IN IF pk.fi > Len(files)
        THEN /\ pk' = [pk EXCEPT !.di = @ + 1]
             /\ pc' = "deps"
        ELSE IF seenAdd(pk.seen, files[pk.fi], m.path)
        THEN /\ pk' = [pk EXCEPT !.fi = @ + 1]
             /\ pc' = "files"
        ELSE /\ pk' = [pk EXCEPT !.seen = @ \cup {<<files[pk.fi], m.path>>}, !.ii = 1]
             /\ pc' = "imports"
  /\ UNCHANGED <<snap, req, cancelled, cancelledAt, resp, rn, ro, iter, reqNo, first>>

\* A probe that looks the name up in the file scope only.
RECURSIVE freshLocalNameFileOnly(_, _, _, _)
freshLocalNameFileOnly(newName, try, fscope, pscope) ==
  LET localName == IF try = 0 THEN newName ELSE Sprintf_sd(newName, try) IN
  IF localName \in fscope
  THEN freshLocalNameFileOnly(newName, try + 1, fscope, pscope)
  ELSE localName

\* The loop that tries fresh local names until one is bound neither in the
\* file scope nor in the package scope.
RECURSIVE freshLocalName(_, _, _, _)
freshLocalName(newName, try, fscope, pscope) ==
  LET localName == IF try = 0 THEN newName ELSE Sprintf_sd(newName, try) IN
  IF localName \in fscope \/ localName \in pscope
  THEN freshLocalName(newName, try + 1, fscope, pscope)
  ELSE localName

Quote(path) == <<"\"">> \o path \o <<"\"">>

\* One iteration of the loop over f.File.Imports, up to the call of
\* renameObj for the implicit package name.
renameImportsSpec ==
  /\ pc = "imports"
  /\ LET dep == pk.rdeps[pk.di]
         f == CompiledGoFiles(snap, dep)[pk.fi]
         imps == Imports(snap, f)
         m == Metadata(snap, iter.meta[pk.mi])
     IN IF pk.ii > Len(imps)
        THEN /\ pk' = [pk EXCEPT !.fi = @ + 1]
             /\ pc' = "files"
             /\ UNCHANGED ro
        ELSE LET imp == imps[pk.ii]
                 withPath == [pk.edits EXCEPT ![f] =
                    Append(@, TextEdit(Position(f, imp.pathPos), Position(f, imp.pathEnd),
                                       Quote(pk.newPath)))]
             IN IF imp.path # m.path
                THEN /\ pk' = [pk EXCEPT !.ii = @ + 1]
                     /\ UNCHANGED <<pc, ro>>
                ELSE IF pk.pkgName = m.name \/ imp.named
                THEN /\ pk' = [pk EXCEPT !.edits = withPath, !.ii = @ + 1]
                     /\ UNCHANGED <<pc, ro>>
                ELSE LET localName == freshLocalName(pk.pkgName, 0, fileScope(snap, f), pkgScope(snap, dep))
                     IN /\ pk' = [pk EXCEPT !.edits = withPath, !.localName = localName,
                                            !.probe = [dep |-> dep, f |-> f, pathPos |-> imp.pathPos,
                                                       pathEnd |-> imp.pathEnd, merged |-> FALSE]]
                        /\ ro' = CallRenameObj("imports", imp.obj, localName, FALSE)
                        /\ pc' = "renameObj"
  /\ UNCHANGED <<snap, req, cancelled, cancelledAt, resp, rn, iter, reqNo, first>>

\* The deletion of the first change without sorting the changes.
dropFirstChangeUnsorted(v) == Tail(v)

\* changes[f.URI] after the deletion of the lexically first change.
dropFirstChange(v) == Tail(SortSlice(v))

\* renameImports after renameObj: when the local name is the new package
\* name the first change of the file is deleted; the changes are appended
\* to the edits.
renameImportsAfterObj ==
  /\ pc = "impAfter"
  /\ LET dep == pk.rdeps[pk.di]
         f == CompiledGoFiles(snap, dep)[pk.fi]
     IN IF ro.err # "" THEN PkgReturn(ErrResp(ro.err, TRUE)) /\ UNCHANGED pk
        ELSE IF pk.localName = pk.pkgName /\ ro.edits[f] = <<>>
        THEN PkgReturn(PanicResp(TRUE)) /\ UNCHANGED pk
        ELSE LET changes == IF pk.localName = pk.pkgName
                            THEN [ro.edits EXCEPT ![f] = dropFirstChange(@)]
                            ELSE ro.edits
             IN /\ pk' = [pk EXCEPT !.edits = [u \in URIs |-> pk.edits[u] \o changes[u]],
                                    !.ii = @ + 1, !.probe.merged = TRUE]
                /\ pc' = "imports"
                /\ UNCHANGED resp
  /\ UNCHANGED <<snap, req, cancelled, cancelledAt, rn, ro, iter, reqNo, first>>

----------------------------------------------------------------------------
(* The context, and the specifications. *)

\* Where the request was when ctx was cancelled: the step it was at, and
\* the iteration of renamePackage over the packages.
NotCancelled == [pc |-> "", mi |-> 0]

\* The caller cancels ctx while the request is being served.
Cancel ==
  /\ pc \notin {"idle", "done"}
  /\ ~cancelled
  /\ cancelled' = TRUE
  /\ cancelledAt' = [pc |-> pc, mi |-> pk.mi]
  /\ UNCHANGED <<snap, req, pc, resp, rn, pk, ro, iter, reqNo, first>>

\* The edits of a response, per file, without their order.
EditSets(edits) == [u \in URIs |-> SeqRange(edits[u])]

FirstOf(r) == [status |-> r.status, editSets |-> EditSets(r.edits)]

Init ==
  /\ snap \in Snapshots
  /\ req = NoReq
  /\ pc = "idle"
  /\ cancelled = FALSE
  /\ cancelledAt = NotCancelled
  /\ resp = NoResp
  /\ rn = Rn0
  /\ pk = Pk0
  /\ ro = Ro0
  /\ iter = Iter0
  /\ reqNo = 0
  /\ first = FirstOf(NoResp)

Request ==
  \/ \E target \in TargetsOf(snap) : PrepareRename(target)
  \/ \E target \in TargetsOf(snap) : \E newName \in NewNamesFor(target) : RenameStart(target, newName)

Next ==
  \/ Request
  \/ renameObjStart
  \/ renameObjCheck
  \/ renameObjUpdate
  \/ renameObjResult
  \/ RenameAfterObj
  \/ RenameAfterImpl
  \/ renamePackageStep
  \/ renameImportsDep
  \/ renameImportsFile
  \/ renameImportsSpec
  \/ renameImportsAfterObj
  \/ Cancel

Spec == Init /\ [][Next]_vars

\* The client issues the same package rename again, against the same
\* snapshot: the planning starts from scratch, and ranges over the
\* metadata and the reverse dependencies in an order of its own.
RepeatRename ==
  /\ pc = "done"
  /\ req.op = "Rename"
  /\ resp.isPkg
  /\ resp.status = "ok"
  /\ reqNo < MaxRequests
  /\ reqNo' = reqNo + 1
  /\ first' = IF reqNo = 1 THEN FirstOf(resp) ELSE first
  /\ cancelled' = FALSE
  /\ cancelledAt' = NotCancelled
  /\ rn' = Rn0
  /\ RenameDispatch(req.target, req.newName)
  /\ UNCHANGED <<snap, req>>

NextRepeat == Next \/ RepeatRename

SpecRepeat == Init /\ [][NextRepeat]_vars

----------------------------------------------------------------------------
(* Properties. *)

ReturnPcs == {"rnAfter", "implAfter", "impAfter"}

CollabErrors == {"collaborator failure", "context canceled"}

\* Some reference of the list handed to renameObj conflicts.
SomeRefConflicts == \E i \in 1..Len(ro.refs) : check(snap, ro.objId, ro.refs[i])

\* C1 (atomicity of renameObj): whenever the conflict check reports a
\* conflict for some reference of the list, update never runs, renameObj
\* returns an error with no edits, and the request ends with an error and
\* no edits.
C1_Atomicity ==
  SomeRefConflicts =>
    /\ pc \notin {"update", "result"}
    /\ ro.upd = Upd0
    /\ ro.edits = NoEdits
    /\ pc \in ReturnPcs => ro.err # ""
    /\ pc = "done" => resp.status = "error" /\ resp.edits = NoEdits /\ resp.optEdits = NoEdits

\* A conflict found at a later reference, after earlier ones passed.
C1_Witness == pc \in ReturnPcs /\ ro.hadConflicts /\ ro.ci > 1 /\ ro.err = "conflict"

\* The current name of the target of a request.
CurrentName(s, target) ==
  IF target \in ObjIds THEN Obj(s, target).name
  ELSE IF target \in ClauseTargets /\ Len(MetadataForFile(target)) > 0
  THEN Metadata(s, MetadataForFile(target)[1]).name
  ELSE <<>>

\* Failures of the workspace, which no name causes.
WorkspaceErrors ==
  CollabErrors \cup
    { "no packages found for file",
      "cannot rename package: missing module information",
      "cannot rename package: module path is the same as the package path" }

\* A rename to the current name of the target has ended, and no failure of
\* the workspace ended it.
SameNameRequest ==
  /\ pc = "done"
  /\ req.op = "Rename"
  /\ req.target \in ObjIds \cup ClauseTargets
  /\ req.newName = CurrentName(snap, req.target)
  /\ resp.err \notin WorkspaceErrors

\* C2 as stated: renaming to the current name always fails with "old and
\* new names are the same" and no edits, for every kind of target.
C2_Original ==
  SameNameRequest =>
    resp.status = "error" /\ resp.err = "old and new names are the same" /\ resp.edits = NoEdits

\* C2 as amended: renaming an object to its current name fails with no
\* edits; the error is "old and new names are the same" unless the object
\* is the blank identifier or an embedded field, which checkRenamable
\* rejects first with its own error.  A package renamed through its
\* package clause to its current name is not compared with it: the request
\* never fails with "old and new names are the same".
C2_SameNameRejected ==
  SameNameRequest =>
    IF req.target \in ObjIds
    THEN /\ resp.status = "error"
         /\ resp.edits = NoEdits
         /\ resp.optEdits = NoEdits
         /\ resp.err = IF checkRenamable(Obj(snap, req.target)) # ""
                       THEN checkRenamable(Obj(snap, req.target))
                       ELSE "old and new names are the same"
    ELSE resp.err # "old and new names are the same"

C2_Witness ==
  SameNameRequest /\ req.target = "V" /\ resp.err = "old and new names are the same"

\* No two edits of a list have the same span.
NoDuplicateSpan(edits) ==
  \A i, j \in 1..Len(edits) :
    (edits[i].start = edits[j].start /\ edits[i].end = edits[j].end) => i = j

\* C3 (dedup): the edits update has produced hold at most one edit for
\* each (file, span): identifier edits, package-alias edits and doc-comment
\* edits together.
C3_Dedup == \A u \in URIs : NoDuplicateSpan(ro.upd.result[u])

\* update has finished on a list that repeats the declaration of a
\* documented variable, with its doc-comment edits made.
C3_Witness ==
  /\ pc = "result"
  /\ ro.objId = "V"
  /\ \E i, j \in 1..Len(ro.refs) : i # j /\ ro.refs[i].occ = 1 /\ ro.refs[j].occ = 1
  /\ Len(ro.upd.result["f.go"]) = 4

\* The scopes probed for the last local name.
ProbeBound(n) ==
  n \in fileScope(snap, pk.probe.f) \cup pkgScope(snap, pk.probe.dep)

\* The edit that inserts the local name before the import path.
IsAliasInsertion(e) ==
  /\ e.s = Position(pk.probe.f, pk.probe.pathPos)
  /\ e.e = Position(pk.probe.f, pk.probe.pathPos)
  /\ e.new = pk.localName \o <<" ">>

\* C4 (alias correctness): when the new package name is bound in the file
\* scope or the package scope of an importer with an un-aliased import, the
\* local name chosen is the new name followed by the smallest k >= 1 that
\* makes it unbound in both scopes; it differs from the new name, and it is
\* the name inserted before the import path.
C4_AliasCorrect ==
  (pk.probe.f # "" /\ ProbeBound(pk.newName)) =>
    /\ \E k \in 1..(Cardinality(fileScope(snap, pk.probe.f) \cup pkgScope(snap, pk.probe.dep)) + 1) :
         /\ pk.localName = Sprintf_sd(pk.newName, k)
         /\ \A j \in 1..(k - 1) : ProbeBound(Sprintf_sd(pk.newName, j))
    /\ ~ProbeBound(pk.localName)
    /\ pk.localName # pk.newName
    /\ pk.probe.merged =>
         \E i \in 1..Len(pk.edits[pk.probe.f]) : IsAliasInsertion(pk.edits[pk.probe.f][i])

\* The first suffix is taken as well: the local name is the new name
\* followed by 2, and its insertion was appended.
C4_Witness == pk.probe.merged /\ pk.localName = Sprintf_sd(pk.newName, 2)

\* An edit that touches the import spec of the last probe.
TouchesImportSpec(e) ==
  /\ ComparePosition(e.s, Position(pk.probe.f, pk.probe.pathEnd)) <= 0
  /\ ComparePosition(Position(pk.probe.f, pk.probe.pathPos), e.e) <= 0

IsPathEdit(e) ==
  /\ e.s = Position(pk.probe.f, pk.probe.pathPos)
  /\ e.e = Position(pk.probe.f, pk.probe.pathEnd)
  /\ Head(e.new) = "\""

\* C5 (alias elision): when the local name is the new package name, the
\* change deleted from the result of renameObj is the alias insertion and
\* no other (every other change of the file is appended), the deletion
\* never meets an empty list, and of the edits touching the import spec
\* only the edit of the path literal remains.
C5_AliasElision ==
  /\ ~(pc = "done" /\ resp.status = "panic" /\ resp.isPkg)
  /\ (pk.probe.merged /\ pk.localName = pk.newName) =>
       LET f == pk.probe.f
           kept == pk.edits[f]
           changes == ro.edits[f]
       IN /\ \A i \in 1..Len(kept) : TouchesImportSpec(kept[i]) => IsPathEdit(kept[i])
          /\ \A i \in 1..Len(kept) : ~IsAliasInsertion(kept[i])
          /\ \A i \in 1..Len(changes) :
               IsAliasInsertion(changes[i]) \/ changes[i] \in SeqRange(kept)
          /\ \E i \in 1..Len(changes) : IsAliasInsertion(changes[i])
          /\ Cardinality({i \in 1..Len(kept) : kept[i] \in SeqRange(changes)}) = Len(changes) - 1

\* The alias was elided although renameObj listed a use before the
\* declaration.
C5_Witness ==
  /\ pk.probe.merged
  /\ pk.localName = pk.newName
  /\ ~IsAliasInsertion(ro.edits[pk.probe.f][1])

\* Whether an edit of file u replaces an occurrence of the object.
AtOccurrence(e, u, objId) ==
  \E i \in 1..Len(Obj(snap, objId).occs) :
    LET o == Obj(snap, objId).occs[i] IN
      o.uri = u /\ e.s = Position(u, o.start) /\ e.e = Position(u, o.end)

\* Whether an edit list of file u holds an edit for every occurrence of
\* the object in u.
CoversOccurrences(edits, objId) ==
  \A i \in 1..Len(Obj(snap, objId).occs) :
    LET o == Obj(snap, objId).occs[i] IN
      \E j \in 1..Len(edits[o.uri]) :
        /\ edits[o.uri][j].s = Position(o.uri, o.start)
        /\ edits[o.uri][j].e = Position(o.uri, o.end)

InterfaceRenameDone ==
  /\ pc = "done"
  /\ req.op = "Rename"
  /\ req.target \in ObjIds
  /\ isInterfaceSignature(Obj(snap, req.target)) = "true"
  /\ resp.status = "ok"

\* C6 (interface fan-out isolation): a successful rename of an interface
\* method returns as primary edits the result of the direct rename, which
\* covers the occurrences of the interface method, carries no annotation
\* and touches no occurrence of an implementation; every edit of an
\* implementation is in the optional bundle only, tagged with the
\* identifier of its implementation, and there is one NeedsConfirmation
\* annotation per implementation.
C6_FanOutIsolation ==
  InterfaceRenameDone =>
    LET impls == implementations(req.target) IN
      /\ resp.hasOpt
      /\ resp.edits = rn.result
      /\ CoversOccurrences(resp.edits, req.target)
      /\ \A u \in URIs : \A i \in 1..Len(resp.edits[u]) :
           /\ resp.edits[u][i].ann = ""
           /\ \A k \in 1..Len(impls) : ~AtOccurrence(resp.edits[u][i], u, impls[k])
      /\ \A u \in URIs : \A i \in 1..Len(resp.optEdits[u]) :
           \E k \in 1..Len(impls) :
             /\ resp.optEdits[u][i].ann = ToString(k - 1)
             /\ AtOccurrence(resp.optEdits[u][i], u, impls[k])
      /\ \A k \in 1..Len(impls) :
           /\ CoversOccurrences(resp.optEdits, impls[k])
           /\ \E a \in resp.annotations : a.id = ToString(k - 1) /\ a.needsConfirmation
      /\ Cardinality(resp.annotations) = Len(impls)
      /\ \A a \in resp.annotations : a.needsConfirmation

\* An interface method with two implementations was renamed.
C6_Witness ==
  /\ InterfaceRenameDone
  /\ Len(implementations(req.target)) = 2
  /\ \E u \in URIs : Len(resp.optEdits[u]) >= 2

\* A package-clause request on a package that PrepareRename rejects.
RejectedByPrepare(s, target) ==
  /\ target \in ClauseTargets
  /\ Len(MetadataForFile(target)) > 0
  /\ LET meta == Metadata(s, MetadataForFile(target)[1]) IN
       \/ meta.name = <<"m", "a", "i", "n">>
       \/ HasSuffix(meta.name, <<"_test">>)
       \/ ~meta.module.has
       \/ meta.module.path = meta.path

\* C7 (PrepareRename and Rename make the same checks on the target):
\* Rename and PrepareRename both fail, with no edits, on the clause of a
\* package that is "main", whose name ends in "_test", that has no module
\* metadata or whose path is the module path; and both reject the blank
\* identifier and embedded fields.
C7_SameChecks ==
  (pc = "done" /\ req.op \in {"Rename", "PrepareRename"}) =>
    /\ RejectedByPrepare(snap, req.target) =>
         resp.status = "error" /\ resp.edits = NoEdits
    /\ (req.target \in ObjIds /\ checkRenamable(Obj(snap, req.target)) # "") =>
         resp.status = "error" /\ resp.edits = NoEdits

\* The loops of renamePackage and renameImports over packages, reverse
\* dependencies, files and import specs.
PackageTraversalPcs == {"pkgLoop", "deps", "files", "imports"}

\* The request was cancelled in the loop of update over the references, or
\* in the loops of renamePackage and renameImports with at least one
\* package still to be iterated over.
CancelledInTraversal ==
  \/ cancelledAt.pc = "update"
  \/ cancelledAt.pc \in PackageTraversalPcs /\ cancelledAt.mi < Len(iter.meta)

\* C8 (cancellation): a request cancelled while renamePackage,
\* renameImports or update iterate, with iterations still to come, ends
\* with the cancellation error, never with edits.
C8_Cancellation ==
  (pc = "done" /\ req.op = "Rename" /\ CancelledInTraversal) =>
    /\ resp.status = "error"
    /\ resp.err = "context canceled"
    /\ resp.edits = NoEdits

\* Two edits overlap when each starts before the other ends.
Overlap(a, b) == ComparePosition(a.s, b.e) < 0 /\ ComparePosition(b.s, a.e) < 0

NonOverlapping(edits) ==
  \A i, j \in 1..Len(edits) : i # j => ~Overlap(edits[i], edits[j])

SortedByStart(edits) ==
  \A i \in 1..(Len(edits) - 1) : ComparePosition(edits[i].s, edits[i + 1].s) <= 0

RenameSucceeded == pc = "done" /\ req.op = "Rename" /\ resp.status = "ok"

\* C9 as stated: in the result of a successful rename the edits of each
\* file are pairwise non-overlapping and ordered by start offset.
C9_Original ==
  RenameSucceeded =>
    \A u \in URIs :
      /\ NonOverlapping(resp.edits[u]) /\ SortedByStart(resp.edits[u])
      /\ NonOverlapping(resp.optEdits[u]) /\ SortedByStart(resp.optEdits[u])

\* C9 as amended: in the result of a successful rename the edits of each
\* file are pairwise non-overlapping (in the primary edits and in the
\* optional bundle); they are in the order in which they were produced.
C9_NonOverlapping ==
  RenameSucceeded =>
    \A u \in URIs : NonOverlapping(resp.edits[u]) /\ NonOverlapping(resp.optEdits[u])

\* A package rename whose result holds, for one import spec, the edit of
\* the path literal and the insertion of an alias at its start.
C9_Witness ==
  /\ RenameSucceeded
  /\ resp.isPkg
  /\ \E u \in URIs : \E i, j \in 1..Len(resp.edits[u]) :
       /\ resp.edits[u][i].s = resp.edits[u][j].s
       /\ resp.edits[u][i].e = resp.edits[u][i].s
       /\ resp.edits[u][j].e # resp.edits[u][j].s

\* C10 (order independence across build variants): the same package
\* rename planned again on the same snapshot, whatever the order in which
\* the packages and the reverse dependencies are iterated, gives every
\* file the same edits, the chosen local alias included, and at most one
\* edit for each span.
C10_OrderIndependent ==
  (pc = "done" /\ reqNo >= 2 /\ resp.status = "ok" /\ first.status = "ok") =>
    /\ EditSets(resp.edits) = first.editSets
    /\ \A u \in URIs : \A i, j \in 1..Len(resp.edits[u]) :
         (resp.edits[u][i].s = resp.edits[u][j].s /\ resp.edits[u][i].e = resp.edits[u][j].e)
           => i = j

\* All the packages of the workspace.
AllPackages == {"p", "pt", "xt", "s", "o", "q", "b", "bt", "bi"}

\* A package rename reached renamePackage and ended, and no collaborator
\* failed.
PackageRenameEnded ==
  /\ pc = "done"
  /\ req.op = "Rename"
  /\ req.target \in ClauseTargets
  /\ pk.mi > 0
  /\ resp.err \notin CollabErrors

\* The path is oldPath itself or oldPath followed by "/" and more.
IsDescendant(path, oldPath) ==
  \/ path = oldPath
  \/ /\ Len(path) > Len(oldPath) + 1
     /\ SubSeq(path, 1, Len(oldPath)) = oldPath
     /\ path[Len(oldPath) + 1] = "/"

IsTestPackageOf(path, oldPath) == path = oldPath \o <<"_test">>

\* An affected package (the renamed one or a descendant) without module
\* metadata.
AffectedWithoutModule ==
  \E id \in AllPackages :
    /\ IsDescendant(Metadata(snap, id).path, pk.oldPath)
    /\ ~IsTestPackageOf(Metadata(snap, id).path, pk.oldPath)
    /\ ~Metadata(snap, id).module.has

\* Some edit anywhere writes the quoted import path.
WritesPath(edits, path) ==
  \E u \in URIs : \E i \in 1..Len(edits[u]) : edits[u][i].new = Quote(path)

\* Some edit of the file replaces its package clause.
ClauseEdits(edits, u) ==
  {i \in 1..Len(edits[u]) :
     /\ FileName(snap, u).has
     /\ edits[u][i].s = Position(u, FileName(snap, u).pos)
     /\ edits[u][i].e = Position(u, FileName(snap, u).end)}

\* C11 (the scope filter precedes module membership in renamePackage): a
\* package whose path is neither oldPath nor a "/"-delimited descendant
\* (such as a sibling that shares the string prefix) never fails the
\* rename, module metadata or not, and gets no edits; an affected package
\* without module metadata fails the whole rename with no edits; an
\* affected package of another module gets no edits and its new path is
\* written nowhere; the package with path oldPath + "_test" gets only its
\* package clause renamed, to newName + "_test".
C11_ScopeFilter ==
  PackageRenameEnded =>
    /\ AffectedWithoutModule => resp.status = "error"
    /\ resp.err = "cannot rename package: missing module information" => AffectedWithoutModule
    /\ resp.status = "error" => resp.edits = NoEdits
    /\ resp.status = "ok" =>
         \A id \in AllPackages :
           LET m == Metadata(snap, id)
               newPath == pk.newPathPrefix \o SubSeq(m.path, Len(pk.oldPath) + 1, Len(m.path))
           IN /\ (~IsDescendant(m.path, pk.oldPath) /\ ~IsTestPackageOf(m.path, pk.oldPath)) =>
                   \A i \in 1..Len(m.files) : ClauseEdits(resp.edits, m.files[i]) = {}
              /\ (IsDescendant(m.path, pk.oldPath) /\ m.module.path # pk.modulePath) =>
                   /\ \A i \in 1..Len(m.files) : resp.edits[m.files[i]] = <<>>
                   /\ ~WritesPath(resp.edits, newPath)
              /\ IsTestPackageOf(m.path, pk.oldPath) =>
                   /\ \A i \in 1..Len(m.files) :
                        \A j \in ClauseEdits(resp.edits, m.files[i]) :
                          resp.edits[m.files[i]][j].new = pk.newName \o <<"_test">>
                   /\ \A i \in 1..Len(m.files) :
                        FileName(snap, m.files[i]).has => ClauseEdits(resp.edits, m.files[i]) # {}
                   /\ ~WritesPath(resp.edits, pk.newPathPrefix \o <<"_test">>)

\* The rename of a/p succeeded in a workspace that holds the sibling
\* without module metadata, the nested package of another module with an
\* importer, and the external test package.
C11_Witness ==
  /\ PackageRenameEnded
  /\ resp.status = "ok"
  /\ pk.oldPath = PathP
  /\ ~Metadata(snap, "q").module.has
  /\ Len(Imports(snap, "b_test.go")) = 1
  /\ ClauseEdits(resp.edits, "px_test.go") # {}

\* join(dir(oldPath), newName): oldPath up to and including its last "/",
\* then newName; then the part of the package path beyond oldPath.
PropagatedPath(path) ==
  SubSeq(pk.oldPath, 1, LastSlash(pk.oldPath)) \o pk.newName
    \o SubSeq(path, Len(pk.oldPath) + 1, Len(path))

\* The edits of file u that replace the path literal of an import spec.
PathLiteralEdits(edits, u, imp) ==
  {i \in 1..Len(edits[u]) :
     /\ edits[u][i].s = Position(u, imp.pathPos)
     /\ edits[u][i].e = Position(u, imp.pathEnd)}

\* The edits of file u that insert text at the start of an import spec.
AliasInsertions(edits, u, imp) ==
  {i \in 1..Len(edits[u]) :
     /\ edits[u][i].s = Position(u, imp.pathPos)
     /\ edits[u][i].e = Position(u, imp.pathPos)}

\* A fully parsed reverse dependency of a variant of the package with this
\* path compiles the file.
ImportedThroughFullParse(path, u) ==
  \E id \in AllPackages : \E d \in 1..Len(Metadata(snap, id).rdeps) :
    LET dep == Metadata(snap, id).rdeps[d] IN
      /\ Metadata(snap, id).path = path
      /\ ParseMode(snap, dep) = "ParseFull"
      /\ u \in SeqRange(CompiledGoFiles(snap, dep))

PackageRenameSucceeded == PackageRenameEnded /\ resp.status = "ok"

\* C12 (path propagation): after a successful package rename, every import
\* literal of the renamed package or of an affected descendant of the same
\* module, in a file of a fully parsed reverse dependency, is replaced once
\* by join(dir(oldPath), newName) followed by the suffix of the package's
\* path beyond oldPath, and no other import literal is edited; only files
\* of the package whose path is oldPath have their package clause
\* rewritten to newName; imports of descendants get the path-literal edit
\* only, with no alias inserted.
C12_PathPropagation ==
  PackageRenameSucceeded =>
    /\ \A u \in URIs : \A k \in 1..Len(Imports(snap, u)) :
         LET imp == Imports(snap, u)[k]
             affected == \E id \in AllPackages :
                           /\ Metadata(snap, id).path = imp.path
                           /\ IsDescendant(imp.path, pk.oldPath)
                           /\ Metadata(snap, id).module = Module(pk.modulePath)
             lits == PathLiteralEdits(resp.edits, u, imp)
         IN /\ (affected /\ ImportedThroughFullParse(imp.path, u)) => Cardinality(lits) = 1
            /\ ~affected => lits = {}
            /\ \A i \in lits : resp.edits[u][i].new = <<"\"">> \o PropagatedPath(imp.path) \o <<"\"">>
            /\ imp.path # pk.oldPath => AliasInsertions(resp.edits, u, imp) = {}
    /\ \A id \in AllPackages : \A f \in 1..Len(Metadata(snap, id).files) :
         LET u == Metadata(snap, id).files[f] IN
           \A i \in ClauseEdits(resp.edits, u) :
             /\ resp.edits[u][i].new = pk.newName =>
                  \E id2 \in AllPackages :
                    /\ Metadata(snap, id2).path = pk.oldPath
                    /\ u \in SeqRange(Metadata(snap, id2).files)
             /\ Metadata(snap, id).path = pk.oldPath => resp.edits[u][i].new = pk.newName
    /\ \A id \in AllPackages :
         (Metadata(snap, id).path = pk.oldPath) =>
           \A f \in 1..Len(Metadata(snap, id).files) :
             FileName(snap, Metadata(snap, id).files[f]).has =>
               ClauseEdits(resp.edits, Metadata(snap, id).files[f]) # {}

\* The renamed package and its nested package are both imported by b.go,
\* whose two import literals were replaced, the second with its suffix.
C12_Witness ==
  /\ PackageRenameSucceeded
  /\ pk.oldPath = PathP
  /\ pk.newName # Metadata(snap, "p").name
  /\ \E i \in 1..Len(resp.edits["b.go"]) :
       resp.edits["b.go"][i].new = <<"\"">> \o PropagatedPath(PathP \o <<"/", "s">>) \o <<"\"">>
  /\ \E i \in 1..Len(resp.edits["b.go"]) :
       resp.edits["b.go"][i].new = <<"\"">> \o PropagatedPath(PathP) \o <<"\"">>

\* The object is a method whose receiver is an interface.
IsInterfaceMethod(obj) == obj.kind = "func" /\ obj.recv = "iface"

\* The direct renameObj of a rename of an object that is not an interface
\* method returned edits, and the request has ended.
PrimaryEditsComputed ==
  /\ pc = "done"
  /\ req.op = "Rename"
  /\ req.target \in ObjIds
  /\ ~IsInterfaceMethod(Obj(snap, req.target))
  /\ ro.caller = "Rename"
  /\ ro.err = ""
  /\ ro.edits # NoEdits

\* C13 (fan-out only for abstract methods): once the primary edits of a
\* target that is not an interface method (a variable, a concrete method, a
\* function without receiver) have been computed, Rename returns them with
\* no optional bundle; the interface-signature test answers false and the
\* request neither fails nor crashes.
C13_FanOutOnlyForAbstract ==
  PrimaryEditsComputed =>
    /\ resp.status = "ok"
    /\ resp.edits = ro.edits
    /\ ~resp.hasOpt
    /\ resp.optEdits = NoEdits
    /\ resp.annotations = {}

====
